---------------------------- MODULE Spec2Model ----------------------------
(***************************************************************************)
(* Customer Feedback API (src/main.py, src/models.py).                     *)
(*                                                                         *)
(* Storage is two tables, products and feedback_entries.  Every request    *)
(* handler runs in its own worker with its own SQLAlchemy Session; the     *)
(* statements a handler sends to storage (a query, a flush, a commit) are  *)
(* the atomic steps, and the handlers of different workers interleave      *)
(* between them.                                                           *)
(*                                                                         *)
(* Scores are kept in hundredths (4.5 is 450), so that the range check and *)
(* the rounding of the averages to two decimals are exact.                 *)
(***************************************************************************)
EXTENDS Integers, Sequences, FiniteSets, TLC

\* ------------------------------------------------------------------ bounds
MaxWrites == 2          \* create-feedback and import requests in one run
MaxCsvRows == 2         \* data rows of feedback.csv

Workers == {1, 2}
PIDs == {"A", "B"}
None == "None"

\* The scores a client may send (hundredths).
ScoreInputs == {99, 100, 500, 501}
\* The text of a score cell of feedback.csv.
CsvCells == {"4.0", "abc"}

VARIABLES
    products,          \* committed rows of table products; id = position
    feedback_entries,  \* committed rows of table feedback_entries; id = position
    csv,               \* the content of feedback.csv
    autoflush,         \* the Session factory's autoflush setting
    pc,                \* pc[w]: where worker w's handler stands
    req,               \* req[w]: the request worker w is serving
    session,           \* session[w]: w's Session (pending and flushed objects)
    idx,               \* idx[w]: the import loop's row index
    created_count,     \* created_count[w]: the import's counter
    response,          \* the response the last step sent (NoResponse: it sent none)
    writes,            \* number of write requests accepted so far
    ok_creates,        \* ok_creates[p]: create-feedback requests for p answered 200
    imports_done       \* import requests answered (200 or 400)

vars == <<products, feedback_entries, csv, autoflush, pc, req, session, idx,
          created_count, response, writes, ok_creates, imports_done>>

\* ----------------------------------------------------------------- schema
\* models.py: Product(product_id, name); id is the row's position.
Product(p) == [product_id |-> p, name |-> <<"Product ", p>>]

\* models.py: FeedbackEntry(product_id, score, comment).
FeedbackEntry(p, s, c) == [product_id |-> p, score |-> s, comment |-> c]

HasProduct(rows, p) == \E i \in DOMAIN rows : rows[i].product_id = p

\* products.product_id is unique: inserting `rows` in order after `existing`
\* is accepted iff no inserted row repeats a product_id already there.
UniqueOK_NoConstraint(existing, rows) == TRUE

UniqueOK(existing, rows) ==
    \A i \in DOMAIN rows :
        /\ ~HasProduct(existing, rows[i].product_id)
        /\ \A j \in 1..(i - 1) : rows[j].product_id # rows[i].product_id

\* ---------------------------------------------------------------- session
\* The Session factory's autoflush setting (database.py); either may be built.
AutoflushSettings == BOOLEAN

\* A Session: objects added and not yet flushed (new_p, new_f) and rows
\* flushed into the open transaction and not yet committed (tx_p, tx_f).
EmptySession == [new_p |-> <<>>, new_f |-> <<>>, tx_p |-> <<>>, tx_f |-> <<>>]

\* Session.flush(): INSERT the pending objects into the open transaction.
FlushOK(s, committed) == UniqueOK(committed \o s.tx_p, s.new_p)

Flush(s) == [new_p |-> <<>>, new_f |-> <<>>,
             tx_p |-> s.tx_p \o s.new_p, tx_f |-> s.tx_f \o s.new_f]

\* Session.commit(): flush, then make the transaction's rows durable.  The
\* uniqueness of product_id is decided against the rows committed by then.
CommitOK(s, committed) == UniqueOK(committed, s.tx_p \o s.new_p)

\* ------------------------------------------------------------- validation
\* FeedbackCreate: product_id and score required, 1.0 <= score <= 5.0.
ScoreMin == 100
ScoreMax == 500

Valid_StrictLower(body) ==
    /\ "product_id" \in DOMAIN body
    /\ "score" \in DOMAIN body
    /\ body.score > ScoreMin
    /\ body.score <= ScoreMax

Valid(body) ==
    /\ "product_id" \in DOMAIN body
    /\ "score" \in DOMAIN body
    /\ body.score >= ScoreMin
    /\ body.score <= ScoreMax

CommentOf(body) == IF "comment" \in DOMAIN body THEN body.comment ELSE None

\* The request bodies a client may send: product_id and score, each present
\* or missing, and no comment (the optional field).
Bodies ==
    LET full == [product_id : PIDs, score : ScoreInputs]
    IN  UNION { { [f \in F |-> b[f]] : b \in full } :
                F \in SUBSET {"product_id", "score"} }

\* ------------------------------------------------------------------- file
CsvRows == [product_id : PIDs, score : CsvCells, comment : {"ok"}]

RECURSIVE SeqsUpTo(_, _)
SeqsUpTo(S, n) ==
    IF n = 0 THEN {<<>>}
    ELSE LET shorter == SeqsUpTo(S, n - 1)
         IN  shorter \cup { Append(q, x) : q \in { t \in shorter : Len(t) = n - 1 }, x \in S }

\* feedback.csv: missing or unreadable, or its data rows.
NoFile == [readable |-> FALSE, rows |-> <<>>]

CsvFiles == {NoFile} \cup [readable : {TRUE}, rows : SeqsUpTo(CsvRows, MaxCsvRows)]

\* float(row['score'])
FloatOK(cell) == cell \in {"1.0", "4.0", "5.0"}
Float(cell) == CASE cell = "1.0" -> 100 [] cell = "4.0" -> 400 [] cell = "5.0" -> 500

NoResponse == [op |-> "none", status |-> 0]   \* nothing sent yet

Init ==
    /\ products = <<>>
    /\ feedback_entries = <<>>
    /\ csv \in CsvFiles
    /\ autoflush \in AutoflushSettings
    /\ pc = [w \in Workers |-> "idle"]
    /\ req = [w \in Workers |-> None]
    /\ session = [w \in Workers |-> EmptySession]
    /\ idx = [w \in Workers |-> 0]
    /\ created_count = [w \in Workers |-> 0]
    /\ response = NoResponse
    /\ writes = 0
    /\ ok_creates = [p \in PIDs |-> 0]
    /\ imports_done = 0

\* ------------------------------------------------------------ table views
ProductCount(p) == Cardinality({ i \in DOMAIN products : products[i].product_id = p })

FeedbackIds(p) == { i \in DOMAIN feedback_entries : feedback_entries[i].product_id = p }

FeedbackCount(p) == Cardinality(FeedbackIds(p))

\* A row as a response shows it: the columns and the generated id.
FeedbackResponse(i) ==
    [id |-> i, product_id |-> feedback_entries[i].product_id,
     score |-> feedback_entries[i].score, comment |-> feedback_entries[i].comment]

RECURSIVE SelectIds(_, _)
\* The ids 1..n of the feedback rows of product p, in storage order.
SelectIds(p, n) ==
    IF n = 0 THEN <<>>
    ELSE IF feedback_entries[n].product_id = p
         THEN Append(SelectIds(p, n - 1), n)
         ELSE SelectIds(p, n - 1)

\* ------------------------------------------------------- handler plumbing
\* The handler of worker w returns: the response goes out, get_db closes the
\* Session (whatever was not committed is rolled back).
Finish(w, resp) ==
    /\ pc' = [pc EXCEPT ![w] = "idle"]
    /\ req' = [req EXCEPT ![w] = None]
    /\ session' = [session EXCEPT ![w] = EmptySession]
    /\ idx' = [idx EXCEPT ![w] = 0]
    /\ created_count' = [created_count EXCEPT ![w] = 0]
    /\ response' = resp

\* The handler of worker w moves on to `next` with Session s.
Goto(w, next, s) ==
    /\ pc' = [pc EXCEPT ![w] = next]
    /\ session' = [session EXCEPT ![w] = s]
    /\ response' = NoResponse

\* ------------------------------------------------ POST /feedback/ (create)
\* A body that fails FeedbackCreate's validation: 422 (its detail shows the
\* input), the handler never runs.
CreateRejected(w) ==
    /\ pc[w] = "idle"
    /\ \E body \in Bodies :
        /\ ~Valid(body)
        /\ Finish(w, [op |-> "create_feedback", status |-> 422, input |-> body])
    /\ UNCHANGED <<products, feedback_entries, csv, autoflush, writes,
                   ok_creates, imports_done>>

\* `if not product`
NeedsProduct_Always(found) == TRUE

NeedsProduct_Never(found) == FALSE

NeedsProduct(found) == ~found

\* Lines 49-50: look the product up.
CreateQuery(w) ==
    /\ pc[w] = "idle"
    /\ writes < MaxWrites
    /\ \E body \in Bodies :
        /\ Valid(body)
        /\ req' = [req EXCEPT ![w] = body]
        /\ Goto(w, IF NeedsProduct(HasProduct(products, body.product_id))
                   THEN "cf_product" ELSE "cf_feedback", EmptySession)
    /\ writes' = writes + 1
    /\ UNCHANGED <<products, feedback_entries, csv, autoflush, idx,
                   created_count, ok_creates, imports_done>>

\* Lines 51-53: add the Product and commit.  A duplicate product_id raises
\* IntegrityError, which nothing catches: the framework answers 500.
CreateInsertProduct(w) ==
    /\ pc[w] = "cf_product"
    /\ LET s == [session[w] EXCEPT !.new_p = Append(@, Product(req[w].product_id))]
       IN  IF CommitOK(s, products)
           THEN /\ products' = products \o s.tx_p \o s.new_p
                /\ Goto(w, "cf_feedback", EmptySession)
                /\ UNCHANGED <<req, idx, created_count>>
           ELSE /\ Finish(w, [op |-> "create_feedback", status |-> 500])
                /\ UNCHANGED products
    /\ UNCHANGED <<feedback_entries, csv, autoflush, writes, ok_creates, imports_done>>

\* Lines 56-65: add the FeedbackEntry, commit, refresh, return the row.
CreateInsertFeedback(w) ==
    /\ pc[w] = "cf_feedback"
    /\ LET body == req[w]
           row == FeedbackEntry(body.product_id, body.score, CommentOf(body))
       IN  /\ feedback_entries' = Append(feedback_entries, row)
           /\ Finish(w, [op |-> "create_feedback", status |-> 200,
                         body |-> [id |-> Len(feedback_entries) + 1,
                                   product_id |-> row.product_id,
                                   score |-> row.score, comment |-> row.comment]])
           /\ ok_creates' = [ok_creates EXCEPT ![body.product_id] = @ + 1]
    /\ UNCHANGED <<products, csv, autoflush, writes, imports_done>>

\* ------------------------------------------------------------------ reads
ReadUnchanged ==
    UNCHANGED <<products, feedback_entries, csv, autoflush, writes,
                ok_creates, imports_done>>

\* GET /
home(w) ==
    /\ pc[w] = "idle"
    /\ Finish(w, [op |-> "home", status |-> 200])
    /\ ReadUnchanged

\* GET /feedback/
get_all_feedback(w) ==
    /\ pc[w] = "idle"
    /\ Finish(w, [op |-> "get_all_feedback", status |-> 200,
                  body |-> [i \in DOMAIN feedback_entries |-> FeedbackResponse(i)]])
    /\ ReadUnchanged

RECURSIVE SumScores(_)
\* The sum of the scores of the feedback rows with the ids in I.
SumScores(I) ==
    IF I = {} THEN 0
    ELSE LET i == CHOOSE x \in I : TRUE
         IN  feedback_entries[i].score + SumScores(I \ {i})

\* round(sum / n, 2) on hundredths: to the nearest, a tie to the even one.
Round2_Ceiling(sum, n) == IF sum % n = 0 THEN sum \div n ELSE (sum \div n) + 1

Round2(sum, n) ==
    LET q == sum \div n
        r == sum % n
    IN  IF 2 * r < n THEN q
        ELSE IF 2 * r > n THEN q + 1
        ELSE IF q % 2 = 0 THEN q ELSE q + 1

\* SELECT product_id, avg(score), count(id) ... GROUP BY product_id
ProductAverages ==
    { [product_id |-> p,
       average_score |-> Round2(SumScores(FeedbackIds(p)), FeedbackCount(p)),
       feedback_count |-> FeedbackCount(p)] :
      p \in { feedback_entries[i].product_id : i \in DOMAIN feedback_entries } }

\* GET /feedback/averages/ (the order of the records is storage's choice)
get_product_averages(w) ==
    /\ pc[w] = "idle"
    /\ Finish(w, [op |-> "get_product_averages", status |-> 200,
                  body |-> ProductAverages])
    /\ ReadUnchanged

\* filter(FeedbackEntry.product_id == product_id).all()
FeedbackOf_Unfiltered(p) == [i \in DOMAIN feedback_entries |-> FeedbackResponse(i)]

FeedbackOf(p) ==
    LET ids == SelectIds(p, Len(feedback_entries))
    IN  [k \in DOMAIN ids |-> FeedbackResponse(ids[k])]

\* GET /feedback/product/{product_id}
get_feedback_by_product(w) ==
    /\ pc[w] = "idle"
    /\ \E p \in PIDs :
        LET feedback == FeedbackOf(p)
        IN  IF feedback = <<>>
            THEN Finish(w, [op |-> "get_feedback_by_product", status |-> 404,
                            product_id |-> p])
            ELSE Finish(w, [op |-> "get_feedback_by_product", status |-> 200,
                            product_id |-> p, body |-> feedback])
    /\ ReadUnchanged

\* ----------------------------------------------------- POST /upload-csv/
ImportError(w) ==
    /\ Finish(w, [op |-> "upload_csv", status |-> 400])
    /\ imports_done' = imports_done + 1

\* Line 105: pd.read_csv.  A missing or unreadable file raises: 400.
UploadRead(w) ==
    /\ pc[w] = "idle"
    /\ writes < MaxWrites
    /\ writes' = writes + 1
    /\ IF ~csv.readable
       THEN ImportError(w)
       ELSE /\ Goto(w, "csv_row", EmptySession)
            /\ idx' = [idx EXCEPT ![w] = 1]
            /\ created_count' = [created_count EXCEPT ![w] = 0]
            /\ UNCHANGED <<req, imports_done>>
    /\ UNCHANGED <<products, feedback_entries, csv, autoflush, ok_creates>>

\* The loop with the commit inside it.
UploadRow_CommitsEachRow(w) ==
    /\ pc[w] = "csv_row"
    /\ idx[w] <= Len(csv.rows)
    /\ LET row == csv.rows[idx[w]]
           found == HasProduct(products, row.product_id)
           s == [EmptySession EXCEPT
                   !.new_p = IF found THEN <<>> ELSE <<Product(row.product_id)>>,
                   !.new_f = <<FeedbackEntry(row.product_id,
                                             IF FloatOK(row.score) THEN Float(row.score) ELSE 0,
                                             row.comment)>>]
       IN  IF ~FloatOK(row.score) \/ ~CommitOK(s, products)
           THEN /\ ImportError(w)
                /\ UNCHANGED <<products, feedback_entries>>
           ELSE /\ products' = products \o s.new_p
                /\ feedback_entries' = feedback_entries \o s.new_f
                /\ Goto(w, "csv_row", EmptySession)
                /\ idx' = [idx EXCEPT ![w] = @ + 1]
                /\ created_count' = [created_count EXCEPT ![w] = @ + 1]
                /\ UNCHANGED <<req, imports_done>>
    /\ UNCHANGED <<csv, autoflush, writes, ok_creates>>

\* Lines 108-122: one iteration of the loop.  The query flushes first when
\* the Session autoflushes; it sees the committed rows and the rows of its
\* own transaction.
UploadRow(w) ==
    /\ pc[w] = "csv_row"
    /\ idx[w] <= Len(csv.rows)
    /\ LET row == csv.rows[idx[w]]
           s0 == session[w]
           s1 == IF autoflush THEN Flush(s0) ELSE s0
           found == HasProduct(products \o s1.tx_p, row.product_id)
           s2 == IF NeedsProduct(found)
                 THEN [s1 EXCEPT !.new_p = Append(@, Product(row.product_id))]
                 ELSE s1
       IN  IF (autoflush /\ ~FlushOK(s0, products)) \/ ~FloatOK(row.score)
           THEN ImportError(w)
           ELSE /\ Goto(w, "csv_row",
                        [s2 EXCEPT !.new_f = Append(@,
                            FeedbackEntry(row.product_id, Float(row.score), row.comment))])
                /\ idx' = [idx EXCEPT ![w] = @ + 1]
                /\ created_count' = [created_count EXCEPT ![w] = @ + 1]
                /\ UNCHANGED <<req, imports_done>>
    /\ UNCHANGED <<products, feedback_entries, csv, autoflush, writes, ok_creates>>

\* Lines 124-128: the single commit after the loop.
UploadCommit(w) ==
    /\ pc[w] = "csv_row"
    /\ idx[w] > Len(csv.rows)
    /\ LET s == session[w]
       IN  IF CommitOK(s, products)
           THEN /\ products' = products \o s.tx_p \o s.new_p
                /\ feedback_entries' = feedback_entries \o s.tx_f \o s.new_f
                /\ Finish(w, [op |-> "upload_csv", status |-> 200,
                              imported |-> created_count[w]])
                /\ imports_done' = imports_done + 1
           ELSE /\ ImportError(w)
                /\ UNCHANGED <<products, feedback_entries>>
    /\ UNCHANGED <<csv, autoflush, writes, ok_creates>>

\* ---------------------------------------------------------- specifications
\* The handlers that write, step by step.
Writer(w) ==
    \/ CreateQuery(w)
    \/ CreateInsertProduct(w)
    \/ CreateInsertFeedback(w)
    \/ UploadRead(w)
    \/ UploadRow(w)
    \/ UploadCommit(w)

\* The two aggregate reads.
Reader(w) ==
    \/ get_product_averages(w)
    \/ get_feedback_by_product(w)

\* Every handler.
Handler(w) ==
    \/ CreateRejected(w)
    \/ Writer(w)
    \/ Reader(w)
    \/ home(w)
    \/ get_all_feedback(w)

\* Concurrent write requests: the handlers of the workers interleave between
\* their storage statements.
Next == \E w \in Workers : Writer(w)

Spec == Init /\ [][Next]_vars

\* One request at a time, any handler.
NextSeq == Handler(1)

SpecSeq == Init /\ [][NextSeq]_vars

\* One create-feedback request at a time, and nothing else.
NextCreate ==
    \/ CreateRejected(1)
    \/ CreateQuery(1)
    \/ CreateInsertProduct(1)
    \/ CreateInsertFeedback(1)

SpecCreate == Init /\ [][NextCreate]_vars

\* Reads racing with a writer: a read may fall between any two storage
\* statements of a write handler.
NextRead == Writer(1) \/ Reader(2)

SpecRead == Init /\ [][NextRead]_vars

\* ------------------------------------------------------------------ claims
Abs(x) == IF x < 0 THEN -x ELSE x

\* feedback.csv is readable and every score cell of it is a number.
WellFormed == csv.readable /\ \A i \in DOMAIN csv.rows : FloatOK(csv.rows[i].score)

\* The number of rows of feedback.csv for product p.
CsvCount(p) == Cardinality({ i \in DOMAIN csv.rows : csv.rows[i].product_id = p })

\* C1: in every reachable state of storage, under any interleaving of
\* create-feedback requests and imports, no product_id has two Product rows.
C1_OneProductPerId == \A p \in PIDs : ProductCount(p) <= 1

\* Two requests raced for a new product_id and storage rejected the second insert.
C1_Witness ==
    /\ response.op = "create_feedback"
    /\ response.status = 500
    /\ \E p \in PIDs : ProductCount(p) = 1

\* C2: when two create-feedback requests race to insert the same new Product,
\* the one whose insert storage rejects does not fail: every create-feedback
\* request with a valid body is answered 200.
C2_RaceLoserSucceeds == response.op = "create_feedback" => response.status = 200

\* p occurs on two rows of feedback.csv and has no Product row.
SharedNewId(p) == CsvCount(p) >= 2 /\ ~HasProduct(products, p)

\* C3: an import (one request at a time) of a well-formed file with two or
\* more rows sharing a product_id not yet in storage is answered 200 with the
\* number of rows, commits one FeedbackEntry per row and exactly one Product
\* for that id.
C3_SharedNewIdImports ==
    [][ ( /\ pc[1] = "csv_row"
          /\ idx[1] > Len(csv.rows)
          /\ pc'[1] = "idle"
          /\ WellFormed
          /\ \E p \in PIDs : SharedNewId(p) )
        => ( /\ response'.op = "upload_csv"
             /\ response'.status = 200
             /\ response'.imported = Len(csv.rows)
             /\ Len(feedback_entries') = Len(feedback_entries) + Len(csv.rows)
             /\ \A p \in PIDs : SharedNewId(p) => ProductCount(p)' = 1 ) ]_vars

\* Worker w takes a step of an import (its own, when it is in the loop).
ImportStep(w) ==
    \/ pc[w] = "csv_row" /\ (pc'[w] # pc[w] \/ idx'[w] # idx[w])
    \/ pc[w] = "idle" /\ pc'[w] = "csv_row"
    \/ pc[w] = "idle" /\ imports_done' # imports_done

\* C4: the import is all-or-nothing.  Every step of an import leaves the
\* committed tables as they are, except the one that answers 200, which adds
\* a FeedbackEntry for every row of the file and has a Product for each; an
\* import that ends otherwise answers 400 and leaves nothing staged behind.
C4_ImportAllOrNothing ==
    [][ \A w \in Workers : ImportStep(w) =>
          IF response'.op = "upload_csv" /\ response'.status = 200
          THEN /\ WellFormed
               /\ Len(feedback_entries') = Len(feedback_entries) + Len(csv.rows)
               /\ SubSeq(feedback_entries', 1, Len(feedback_entries)) = feedback_entries
               /\ SubSeq(products', 1, Len(products)) = products
               /\ \A i \in DOMAIN csv.rows : HasProduct(products', csv.rows[i].product_id)
          ELSE /\ products' = products
               /\ feedback_entries' = feedback_entries
               /\ pc'[w] = "idle" =>
                    /\ response' = [op |-> "upload_csv", status |-> 400]
                    /\ session'[w] = EmptySession ]_vars

\* An import failed after its first row had been staged.
C4_Witness ==
    /\ response.op = "upload_csv"
    /\ response.status = 400
    /\ csv.readable
    /\ Len(csv.rows) = 2
    /\ FloatOK(csv.rows[1].score)

\* C5: every committed FeedbackEntry's product_id is the product_id of a
\* committed Product, and create-feedback has the Product committed before
\* it inserts the FeedbackEntry.
C5_FeedbackReferencesProduct ==
    /\ \A i \in DOMAIN feedback_entries :
          HasProduct(products, feedback_entries[i].product_id)
    /\ \A w \in Workers :
          pc[w] = "cf_feedback" => HasProduct(products, req[w].product_id)

\* A create-feedback request has committed a new Product and not yet its
\* FeedbackEntry.
C5_Witness ==
    \E w \in Workers :
        /\ pc[w] = "cf_feedback"
        /\ FeedbackCount(req[w].product_id) = 0
        /\ ProductCount(req[w].product_id) = 1

\* The claim's own reading of a valid body: both fields, 1.0 <= score <= 5.0.
InRange(body) ==
    /\ {"product_id", "score"} \subseteq DOMAIN body
    /\ body.score >= 100
    /\ body.score <= 500

\* C6: a create-feedback body that fails validation (a missing required
\* field, a score below 1.0 or above 5.0) is answered 422 and leaves both
\* tables as they are; a body in range (1.0 and 5.0 included) is never
\* rejected, and only bodies in range reach the handler.
C6_ValidationBeforeMutation ==
    [][ /\ (response'.op = "create_feedback" /\ response'.status = 422) =>
              /\ ~InRange(response'.input)
              /\ products' = products
              /\ feedback_entries' = feedback_entries
        /\ (pc[1] = "idle" /\ pc'[1] # "idle") => InRange(req'[1]) ]_vars

\* A score of 1.0 has been stored, and a score of 0.99 has just been rejected.
C6_Witness ==
    /\ response.op = "create_feedback"
    /\ response.status = 422
    /\ "score" \in DOMAIN response.input
    /\ response.input.score = 99
    /\ \E i \in DOMAIN feedback_entries : feedback_entries[i].score = 100

\* C7: n >= 1 valid create-feedback requests for p, one after the other from
\* a storage without p, are all answered 200 and leave exactly one Product
\* and exactly n FeedbackEntry rows for p; only the first inserts the Product.
C7_SequentialCreates ==
    /\ response.op = "create_feedback" => response.status \in {200, 422}
    /\ pc[1] = "cf_product" => ~HasProduct(products, req[1].product_id)
    /\ pc[1] = "idle" =>
          /\ writes = ok_creates["A"] + ok_creates["B"]
          /\ \A p \in PIDs :
                /\ FeedbackCount(p) = ok_creates[p]
                /\ ProductCount(p) = IF ok_creates[p] >= 1 THEN 1 ELSE 0

\* Two requests for the same product have been answered.
C7_Witness == pc[1] = "idle" /\ \E p \in PIDs : ok_creates[p] = 2

\* C8: two imports of the same well-formed file, one after the other, add the
\* file's FeedbackEntry rows twice and leave one Product row per product_id.
C8_ImportTwiceAddsTwice ==
    (pc[1] = "idle" /\ imports_done = 2 /\ WellFormed) =>
        \A p \in PIDs :
            /\ FeedbackCount(p) = 2 * CsvCount(p) + ok_creates[p]
            /\ ProductCount(p) = IF FeedbackCount(p) >= 1 THEN 1 ELSE 0

\* C9: the product-averages result holds exactly one record for each
\* product_id with at least one FeedbackEntry and none for any other; its
\* feedback_count is the number of the product's rows and its average_score
\* is their mean rounded to two decimals (the hundredth nearest to the mean).
C9_ProductAverages ==
    response.op = "get_product_averages" =>
        \A p \in PIDs :
            LET recs == { r \in response.body : r.product_id = p }
                n == FeedbackCount(p)
                sum == SumScores(FeedbackIds(p))
            IN  IF n = 0 THEN recs = {}
                ELSE /\ Cardinality(recs) = 1
                     /\ \A r \in recs :
                           /\ r.feedback_count = n
                           /\ 2 * Abs(r.average_score * n - sum) <= n

\* Scores 4.0, 4.0 and 5.0: the mean 4.333... is reported as 4.33.
C9_Witness ==
    /\ response.op = "get_product_averages"
    /\ \E r \in response.body : r.feedback_count = 3 /\ r.average_score = 433

\* C10: feedback-by-product returns exactly the FeedbackEntry rows of the
\* product, answers 404 when there are none (an unknown product, or a Product
\* without feedback), and leaves storage as it is.
C10_FeedbackByProduct ==
    [][ response'.op = "get_feedback_by_product" =>
          /\ products' = products
          /\ feedback_entries' = feedback_entries
          /\ LET ids == FeedbackIds(response'.product_id)
             IN  IF ids = {} THEN response'.status = 404
                 ELSE /\ response'.status = 200
                      /\ Len(response'.body) = Cardinality(ids)
                      /\ { response'.body[k].id : k \in DOMAIN response'.body } = ids
                      /\ \A k \in DOMAIN response'.body :
                            response'.body[k] = FeedbackResponse(response'.body[k].id) ]_vars

\* 404 for a product whose Product row exists and has no feedback yet.
C10_Witness ==
    /\ response.op = "get_feedback_by_product"
    /\ response.status = 404
    /\ HasProduct(products, response.product_id)

=============================================================================
